---- MODULE Spec2Model ----
(***************************************************************************)
(* Model of the royalties reconciliation pipeline of resulam_royalties     *)
(* (src/src/data/processor.py, src/src/config.py,                          *)
(* src/src/utils/exchange_rates.py).                                       *)
(*                                                                         *)
(* Text model.  A Python str is a sequence of atoms.  An atom is either    *)
(* one character ("a", "A", "SP", "DOT", "RSQUO", ...) or a run of         *)
(* characters of a title or of a name that the code never looks inside     *)
(* ("GY", "Jane", ...).  Every str method the code calls is defined on     *)
(* sequences of atoms from what the method does to each atom.  Values that *)
(* are not str (pandas NaN) are the single value NaN.                      *)
(***************************************************************************)
EXTENDS Integers, Sequences, FiniteSets, TLC

VARIABLES
  pc,        \* position in the function being run
  text,      \* the argument of a function applied on its own; in a pipeline
             \* run, the sales record's Title as the workbook has it
  res,       \* the values such a function returned, in call order
  row,       \* one row of the royalties table (a sales record)
  rates,     \* exchange_rates: currency code -> USD multiplier
  lists,     \* ebook_list, paper_list, hardcover_list
  out,       \* the columns process_royalties adds to the row
  exploded,  \* the rows explode_authors emits for the row
  books,     \* books_df: the catalog rows, in file order
  mapper,    \* the dictionaries of the BookMetadataMapper built from books
  sheets,    \* the identifier columns of the three per-type report sheets
  files,     \* the catalog file and the sales workbook as the disk has them
  cache,     \* the exchange-rate cache directory and file on disk
  fetch,     \* the arguments, the time and the outcomes of the last
             \* get_rates call
  err,       \* the exception that ended the run, <<>> while none has
  log,       \* the messages printed so far
  prev,      \* the tables an earlier run on the same files returned; the
             \* rates an earlier get_rates call fetched and cached
  now,       \* the clock, in hours
  sync,      \* the background S3 sync: its two globals, the worker threads,
             \* the thread that calls start and stop, the process
  hook       \* a request to the S3 webhook, the downloads it led to and the
             \* response

vars ==
  <<pc, text, res, row, rates, lists, out, exploded, books, mapper, sheets,
    files, cache, fetch, err, log, prev, now, sync, hook>>

tableVars == <<row, rates, lists, out, exploded, sheets>>

catalogVars == <<books, mapper>>

serviceVars == <<sync, hook>>

envVars == <<files, cache, fetch, err, log, prev, now, serviceVars>>

\* ------------------------------------------------------------------ bounds
\* longest input string of the text-normalisation specification
MaxLen == 3

\* ------------------------------------------------------- sequence helpers
StrUpTo(A, n) == UNION {[1..k -> A] : k \in 0..n}

RECURSIVE Flatten(_)
Flatten(ss) == IF ss = <<>> THEN <<>> ELSE Head(ss) \o Flatten(Tail(ss))

NaN == <<"NaN">>
IsStr(x) == x # NaN

\* ------------------------------------------------------------ characters
\* str.isspace(): what strip() removes and what the regex class \s matches
IsSpace(c) == c \in {"SP", "TAB"}

\* the characters of rstrip('.,;:!')
IsTrailPunct(c) == c \in {"DOT", "COMMA", "SEMI", "COLON", "BANG"}

\* unicodedata.combining(c) # 0
IsCombining(c) == c \in {"COMB"}

\* the twelve text.replace calls of _normalize_for_matching
ReplaceQuoteChar(c) ==
  CASE c \in {"LSQUO", "RSQUO", "MODAPOS", "MODPRIME", "PRIME"} -> "APOS"
    [] c \in {"LDQUO", "RDQUO", "LAQUO", "RAQUO"} -> "DQUOTE"
    [] c \in {"ENDASH", "EMDASH"} -> "HYPHEN"
    [] c = "FONGBE" -> "FONGBE_q"
    [] c = "DATE" -> "DATE_q"
    [] OTHER -> c

\* unicodedata.normalize('NFKD', c): a precomposed letter becomes its base
\* letter followed by the combining mark; "NBSP" becomes a space; a run with
\* accented letters becomes the bare run and its combining marks
NFKDChar(c) ==
  CASE c = "a_grave" -> <<"a", "COMB">>
    [] c = "A_grave" -> <<"A", "COMB">>
    [] c = "NBSP" -> <<"SP">>
    [] c = "GY" -> <<"GY_bare", "COMB">>
    [] c = "FOURMI" -> <<"FOURMI_bare", "COMB">>
    [] c = "FOURMI_NUFI" -> <<"FOURMI_NUFI_bare", "COMB">>
    [] c = "CM_BW" -> <<"CM_BW_bare", "COMB">>
    [] c = "NGEMBA" -> <<"NGEMBA_bare", "COMB">>
    [] OTHER -> <<c>>

\* str.lower() of one atom
LowerChar(c) ==
  CASE c = "A" -> "a"
    [] c = "A_grave" -> "a_grave"
    [] c \in {"Resulam", "RESULAM"} -> "resulam"
    [] c = "Jane" -> "jane"
    [] c = "Tchamna" -> "tchamna"
    [] c = "GY" -> "gy"
    [] c = "GY_bare" -> "gy_bare"
    [] c = "FY" -> "fy"
    [] c = "FONGBE" -> "fongbe"
    [] c = "FONGBE_q" -> "fongbe_q"
    [] c = "FOURMI" -> "fourmi"
    [] c = "FOURMI_bare" -> "fourmi_bare"
    [] c = "FOURMI_NUFI" -> "fourmi_nufi"
    [] c = "FOURMI_NUFI_bare" -> "fourmi_nufi_bare"
    [] c = "CM_BW" -> "cm_bw"
    [] c = "CM_BW_bare" -> "cm_bw_bare"
    [] c = "YORUBA" -> "yoruba"
    [] c = "NGEMBA" -> "ngemba"
    [] c = "NGEMBA_bare" -> "ngemba_bare"
    [] c = "DATE" -> "date"
    [] c = "DATE_q" -> "date_q"
    [] OTHER -> c

Lower(s) == [i \in 1..Len(s) |-> LowerChar(s[i])]

\* --------------------------------------------------------- str operations
RECURSIVE LStrip(_)
LStrip(s) == IF s # <<>> /\ IsSpace(Head(s)) THEN LStrip(Tail(s)) ELSE s

RECURSIVE RStrip(_)
RStrip(s) ==
  IF s # <<>> /\ IsSpace(s[Len(s)]) THEN RStrip(SubSeq(s, 1, Len(s) - 1)) ELSE s

\* str.strip()
Strip(s) == RStrip(LStrip(s))

\* str.rstrip('.,;:!')
RECURSIVE RStripPunct(_)
RStripPunct(s) ==
  IF s # <<>> /\ IsTrailPunct(s[Len(s)])
  THEN RStripPunct(SubSeq(s, 1, Len(s) - 1))
  ELSE s

\* re.sub(r'\s+', ' ', s)
RECURSIVE CollapseSpaces(_)
CollapseSpaces(s) ==
  IF s = <<>> THEN <<>>
  ELSE IF IsSpace(Head(s))
       THEN <<"SP">> \o CollapseSpaces(LStrip(Tail(s)))
       ELSE <<Head(s)>> \o CollapseSpaces(Tail(s))

NotCombining(c) == ~IsCombining(c)

\* text.strip().rstrip('.,;:!')
NormalizeTail(s) == RStripPunct(Strip(s))

\* BookMetadataMapper._normalize_for_matching
_normalize_for_matching(t) ==
  LET quoted == [i \in 1..Len(t) |-> ReplaceQuoteChar(t[i])]
      nfkd == Flatten([i \in 1..Len(quoted) |-> NFKDChar(quoted[i])])
      bare == SelectSeq(nfkd, NotCombining)
      lowered == Lower(bare)
      collapsed == CollapseSpaces(lowered)
  IN NormalizeTail(collapsed)

\* ------------------------------------------- specification: normalisation
NormChars == {"a", "A", "a_grave", "COMB", "SP", "TAB", "DOT", "COLON",
              "RSQUO", "APOS", "ENDASH"}

NoRow == [Title |-> <<>>, Authors |-> <<>>, Royalty |-> 0, Currency |-> "USD",
          ISBN |-> [t |-> "str", v |-> "B0"]]

NoLists == [ebook |-> {}, paper |-> {}, hardcover |-> {}]

TableIdle ==
  /\ row = NoRow
  /\ rates = <<>>
  /\ lists = NoLists
  /\ out = <<>>
  /\ exploded = <<>>
  /\ sheets = NoLists

CatalogIdle ==
  /\ books = <<>>
  /\ mapper = <<>>

EnvIdle ==
  /\ files = <<>>
  /\ cache = <<>>
  /\ fetch = <<>>
  /\ err = <<>>
  /\ log = {}
  /\ prev = <<>>
  /\ now = 0
  /\ sync = <<>>
  /\ hook = <<>>

NormInit ==
  /\ pc = "norm0"
  /\ text \in StrUpTo(NormChars, MaxLen) \cup {NaN}
  /\ res = <<>>
  /\ TableIdle
  /\ CatalogIdle
  /\ EnvIdle

\* normalize(t); the function starts with text.replace(...), with no test
\* of the argument's type: a value that is not a str has no such method
NormOnce ==
  /\ pc = "norm0"
  /\ IF IsStr(text)
     THEN /\ res' = <<_normalize_for_matching(text)>>
          /\ pc' = "norm1"
          /\ err' = err
     ELSE /\ err' = [type |-> "AttributeError", names |-> <<"replace">>]
          /\ pc' = "raised"
          /\ res' = res
  /\ UNCHANGED <<text, tableVars, catalogVars, files, cache, fetch, log, prev,
                 now, serviceVars>>

\* normalize(normalize(t))
NormTwice ==
  /\ pc = "norm1"
  /\ res' = Append(res, _normalize_for_matching(res[1]))
  /\ pc' = "norm2"
  /\ UNCHANGED <<text, tableVars, catalogVars, envVars>>

NormNext == NormOnce \/ NormTwice

SpecNorm == NormInit /\ [][NormNext]_vars

\* C6: normalising an already normalised title changes nothing:
\* normalize(normalize(t)) = normalize(t) for every title t.
C6_Idempotent == pc = "norm2" => res[2] = res[1]

\* C19: normalize_for_matching raises nothing on empty or non-string input:
\* the empty string gives the empty string, and a value that is not a
\* string is returned unchanged.
C19_NoExceptionOnNonString ==
  pc # "norm0" =>
    /\ pc # "raised"
    /\ text = <<>> => res[1] = <<>>
    /\ ~IsStr(text) => res[1] = text

\* ------------------------------------------------------ royalty bounds
\* longest author-credit string of the royalty specification
MaxCreditLen == 3

\* longest author-name cell of the author-table specification
MaxNameLen == 3

\* -------------------------------------------------------- more str helpers
\* sub in s
Contains(s, sub) ==
  \E i \in 0..(Len(s) - Len(sub)) : SubSeq(s, i + 1, i + Len(sub)) = sub

\* s.split(sep) for a one-character separator
RECURSIVE Split(_, _)
Split(s, sep) ==
  IF \E i \in 1..Len(s) : s[i] = sep
  THEN LET i == CHOOSE k \in 1..Len(s) :
                  s[k] = sep /\ \A j \in 1..(k - 1) : s[j] # sep
       IN <<SubSeq(s, 1, i - 1)>> \o Split(SubSeq(s, i + 1, Len(s)), sep)
  ELSE <<s>>

\* ------------------------------------------------------- reference tables
\* config.AUTHOR_NORMALIZATION, the entries whose keys the modelled names
\* can spell ('Resulam Resulam', 'Tchamna', 'Josephine Ndonke', ...)
AUTHOR_NORMALIZATION ==
  (<<"Resulam", "SP", "Resulam">> :> <<"Resulam">>) @@
  (<<"Tchamna">> :> <<"Shck Tchamna">>) @@
  (<<"Rodrigue">> :> <<"Shck Tchamna">>) @@
  (<<"Shck Camna_combining">> :> <<"Shck Tchamna">>) @@
  (<<"Shck Camna_caron">> :> <<"Shck Tchamna">>) @@
  (<<"Josephine Ndonke">> :> <<"Josephine_acute Ndonke">>) @@
  (<<"Josephine_acute Ndonke">> :> <<"Josephine_acute Ndonke">>) @@
  (<<"Tanyi Djobia Rene">> :> <<"Tanyi Djobia Rene_acute">>) @@
  (<<"Oliver Germain Tafouemewe">> :> <<"Olivier Tafouemewe">>)

\* no name is replaced
ReplaceAuthor_Unmapped(a) == a

\* Series.replace(AUTHOR_NORMALIZATION) on one cell: whole-value match
ReplaceAuthor(a) ==
  IF a \in DOMAIN AUTHOR_NORMALIZATION THEN AUTHOR_NORMALIZATION[a] ELSE a

\* config.EXCHANGE_RATES_HARDCODED, in units of 1/10000 USD
EXCHANGE_RATES_HARDCODED ==
  [EUR |-> 11000, JPY |-> 73, USD |-> 10000, CAD |-> 8000, GBP |-> 13000,
   BRL |-> 2000, AUD |-> 7000, PLN |-> 2500, SEK |-> 1000, INR |-> 126]

\* the rate 1.0 in the same unit
RateOne == 10000

\* -------------------------------------------------------------- rationals
\* amounts that a float division produces are kept exact, as n / d with d > 0
Rat(n, d) == [n |-> n, d |-> d]

RatEq(a, b) == a.n * b.d = b.n * a.d

RatAdd(a, b) ==
  IF a.d = b.d THEN Rat(a.n + b.n, a.d) ELSE Rat(a.n * b.d + b.n * a.d, a.d * b.d)

RatTimes(k, a) == Rat(k * a.n, a.d)

\* ------------------------------------------------------ RoyaltiesProcessor
\* the publisher is counted whenever the string has no comma: no +1 at all
count_authors_NoImplicit(authors_str) ==
  IF ~IsStr(authors_str) THEN 1 ELSE Len(Split(authors_str, "COMMA"))

\* only the authors other than the publisher are counted
count_authors_OthersOnly(authors_str) ==
  IF ~IsStr(authors_str) THEN 1
  ELSE IF Contains(Lower(authors_str), <<"resulam">>)
       THEN Len(Split(authors_str, "COMMA")) - 1
       ELSE Len(Split(authors_str, "COMMA"))

\* RoyaltiesProcessor.count_authors
count_authors(authors_str) ==
  IF ~IsStr(authors_str) THEN 1
  ELSE IF Contains(Lower(authors_str), <<"resulam">>)
       THEN Len(Split(authors_str, "COMMA"))
       ELSE Len(Split(authors_str, "COMMA")) + 1

\* a currency missing from the table converts at rate 0
convert_to_usd_ZeroDefault(r, exchange_rates) ==
  r.Royalty * (IF r.Currency \in DOMAIN exchange_rates
               THEN exchange_rates[r.Currency] ELSE 0)

\* RoyaltiesProcessor.convert_to_usd: dict.get(currency, 1.0)
convert_to_usd(r, exchange_rates) ==
  r.Royalty * (IF r.Currency \in DOMAIN exchange_rates
               THEN exchange_rates[r.Currency] ELSE RateOne)

\* str(isbn)
StrOf(id) == [t |-> "str", v |-> id.v]

\* RoyaltiesProcessor.categorize_book_type
categorize_book_type(isbn, ebook_list, paper_list, hardcover_list) ==
  LET isbn_str == StrOf(isbn)
  IN IF isbn_str \in paper_list THEN "Paper"
     ELSE IF isbn_str \in hardcover_list THEN "HardCover"
     ELSE IF isbn_str \in ebook_list THEN "Ebook"
     ELSE "Unknown"

\* df['Royalty USD'] / df['Authors Count']
PerAuthorShare(usd, count) == Rat(usd, count)

\* the columns RoyaltiesProcessor.process_royalties adds to one row
ProcessedColumns(r, exchange_rates, ls) ==
  LET count == count_authors(r.Authors)
      usd == convert_to_usd(r, exchange_rates)
  IN [AuthorsCount |-> count,
      RoyaltyUSD |-> usd,
      RoyaltyPerAuthor |-> PerAuthorShare(usd, count),
      BookType |-> categorize_book_type(r.ISBN, ls.ebook, ls.paper, ls.hardcover)]

\* one row too many: the implicit publisher gets a row of its own
ExplodedAuthors_WithPublisher(authors) ==
  IF ~IsStr(authors) THEN <<NaN>>
  ELSE LET segs == Split(Strip(authors), "COMMA")
           named == [i \in 1..Len(segs) |-> ReplaceAuthor(Strip(segs[i]))]
       IN IF Contains(Lower(authors), <<"resulam">>)
          THEN named ELSE Append(named, <<"Resulam">>)

\* the rows whose author is the publisher are filtered out
ExplodedAuthors_NoPublisherRows(authors) ==
  IF ~IsStr(authors) THEN <<NaN>>
  ELSE LET segs == Split(Strip(authors), "COMMA")
           named == [i \in 1..Len(segs) |-> ReplaceAuthor(Strip(segs[i]))]
       IN SelectSeq(named, LAMBDA a : a # <<"Resulam">>)

\* a segment that is empty once trimmed gets no row
ExplodedAuthors_SkipEmpty(authors) ==
  IF ~IsStr(authors) THEN <<NaN>>
  ELSE LET segs == Split(Strip(authors), "COMMA")
           named == [i \in 1..Len(segs) |-> ReplaceAuthor(Strip(segs[i]))]
       IN SelectSeq(named, LAMBDA a : a # <<>>)

\* the Authors_Exploded values RoyaltiesProcessor.explode_authors gives a row
ExplodedAuthors(authors) ==
  IF ~IsStr(authors) THEN <<NaN>>
  ELSE LET segs == Split(Strip(authors), "COMMA")
       IN [i \in 1..Len(segs) |-> ReplaceAuthor(Strip(segs[i]))]

\* ------------------------------------------------------- mapper bounds
\* longest title handed to the mapper's lookups
MaxTitleLen == 3

\* most rows of the books catalog
MaxBooks == 1

\* ------------------------------------------------------------ dictionaries
\* a Python dict built from a sequence of [k, v] pairs: a later pair with the
\* same key replaces the value, the key keeps its first place
DictOf(pairs) ==
  [key \in {pairs[i].k : i \in 1..Len(pairs)} |->
     LET last == CHOOSE i \in 1..Len(pairs) :
                   pairs[i].k = key /\ \A j \in (i + 1)..Len(pairs) : pairs[j].k # key
     IN pairs[last].v]

\* the keys of that dict, in iteration order
RECURSIVE KeysInOrder(_)
KeysInOrder(pairs) ==
  IF pairs = <<>> THEN <<>>
  ELSE LET before == KeysInOrder(SubSeq(pairs, 1, Len(pairs) - 1))
           key == pairs[Len(pairs)].k
       IN IF \E i \in 1..Len(before) : before[i] = key
          THEN before ELSE Append(before, key)

\* the loop  for key, value in d.items(): if keep(key): lookup[normalize(key)] = value
NormalizedLookup(keys, d, kept) ==
  LET idx == {i \in 1..Len(keys) : keys[i] \in kept}
  IN [nk \in {_normalize_for_matching(keys[i]) : i \in idx} |->
        LET last == CHOOSE i \in idx :
                      /\ _normalize_for_matching(keys[i]) = nk
                      /\ \A j \in idx :
                           j > i => _normalize_for_matching(keys[j]) # nk
        IN d[keys[last]]]

\* -------------------------------------------------- config: title tables
\* 'Guide de conversation trilingue francais-anglais-yemba' (with c cedilla)
\* followed by ': French-Yemba-English Phrasebook'
YembaTitle == <<"GY", "FY">>

\* config.BOOK_NICKNAME_MAPPING, in source order: the two Fongbe tale keys
\* (one ending in a date, one in '.'), the two titles of 'La fourmi affamee'
\* (one with ' : Nufi-Francais' in it), whose last character is an
\* apostrophe, and the Yemba phrasebook
BOOK_NICKNAME_MAPPING ==
  << [k |-> <<"FONGBE", "DATE">>, v |-> <<"fongbe_conte_travaille_paresse">>],
     [k |-> <<"FONGBE", "DOT">>, v |-> <<"fongbe_conte_travaille_paresse">>],
     [k |-> <<"FOURMI_NUFI", "APOS">>, v |-> <<"nufi_fourmi_affamee">>],
     [k |-> YembaTitle, v |-> <<"yemba_phrasebook">>],
     [k |-> <<"FOURMI", "APOS">>, v |-> <<"nufi_fourmi_affamee">>] >>

\* BOOK_NICKNAME_MAPPING as the dict it is
NicknameDict == DictOf(BOOK_NICKNAME_MAPPING)

\* config.TITLE_NORMALIZATION, in source order
TITLE_NORMALIZATION ==
  << [k |-> <<"CdB">>, v |-> <<"CsdB">>],
     [k |-> <<"GY">>, v |-> YembaTitle] >>

\* ------------------------------------------------------ LanguageClassifier
\* the keywords of classify_language that occur in a lowercased run of text
KeywordsOf(c) ==
  CASE c \in {"gy", "fy"} -> {"yemba"}
    [] c = "fongbe" -> {"fongbe"}
    [] c = "fourmi_nufi" -> {"nufi"}
    [] c = "cm_bw" -> {"medumba"}
    [] c = "yoruba" -> {"yoruba"}
    [] c = "ngemba" -> {"grenier du nguemba"}
    [] c \in {"nufi", "medumba", "yemba", "duala", "chichewa", "tshiluba",
              "twi", "shupamom", "bamoun", "fe'efe'e", "grenier du hausa",
              "grenier hausa"} -> {c}
    [] OTHER -> {}

\* keyword in title_lower
HasKeyword(title_lower, kws) ==
  \E i \in 1..Len(title_lower) : KeywordsOf(title_lower[i]) \cap kws # {}

\* the Fongbe test stands before the Duala test
classify_language_FongbeEarly(title) ==
  IF ~IsStr(title) THEN title
  ELSE LET title_lower == Lower(title)
       IN IF \/ HasKeyword(title_lower, {"nufi_accented", "nufi", "fe'efe'e"})
             \/ Contains(title, <<"FOURMI", "APOS">>)
             \/ Contains(title, <<"FOURMI_NUFI", "APOS">>)
          THEN <<"Nufi">>
          ELSE IF HasKeyword(title_lower, {"medumba"}) THEN <<"Medumba">>
          ELSE IF HasKeyword(title_lower, {"yemba"}) THEN <<"Yemba">>
          ELSE IF HasKeyword(title_lower, {"yoruba"}) THEN <<"Yoruba">>
          ELSE IF HasKeyword(title_lower, {"fongbe"}) THEN <<"Fongbe">>
          ELSE IF HasKeyword(title_lower, {"duala"}) THEN <<"Duala">>
          ELSE IF HasKeyword(title_lower, {"chichewa"}) THEN <<"Chichewa">>
          ELSE IF HasKeyword(title_lower, {"tshiluba"}) THEN <<"Tshiluba">>
          ELSE IF HasKeyword(title_lower, {"twi"}) THEN <<"Twi">>
          ELSE IF HasKeyword(title_lower, {"shupamom", "bamoun"}) THEN <<"Bamoun">>
          ELSE IF \/ HasKeyword(title_lower, {"grenier du nguemba"})
                  \/ Contains(title, <<"NGEMBA">>)
               THEN <<"Ngemba">>
          ELSE IF HasKeyword(title_lower, {"grenier du hausa", "grenier hausa"})
               THEN <<"Hausa">>
          ELSE <<"Other">>

\* LanguageClassifier.classify_language
classify_language(title) ==
  IF ~IsStr(title) THEN title
  ELSE LET title_lower == Lower(title)
       IN IF \/ HasKeyword(title_lower, {"nufi_accented", "nufi", "fe'efe'e"})
             \/ Contains(title, <<"FOURMI", "APOS">>)
             \/ Contains(title, <<"FOURMI_NUFI", "APOS">>)
          THEN <<"Nufi">>
          ELSE IF HasKeyword(title_lower, {"medumba"}) THEN <<"Medumba">>
          ELSE IF HasKeyword(title_lower, {"yemba"}) THEN <<"Yemba">>
          ELSE IF HasKeyword(title_lower, {"yoruba"}) THEN <<"Yoruba">>
          ELSE IF HasKeyword(title_lower, {"duala"}) THEN <<"Duala">>
          ELSE IF HasKeyword(title_lower, {"fongbe"}) THEN <<"Fongbe">>
          ELSE IF HasKeyword(title_lower, {"chichewa"}) THEN <<"Chichewa">>
          ELSE IF HasKeyword(title_lower, {"tshiluba"}) THEN <<"Tshiluba">>
          ELSE IF HasKeyword(title_lower, {"twi"}) THEN <<"Twi">>
          ELSE IF HasKeyword(title_lower, {"shupamom", "bamoun"}) THEN <<"Bamoun">>
          ELSE IF \/ HasKeyword(title_lower, {"grenier du nguemba"})
                  \/ Contains(title, <<"NGEMBA">>)
               THEN <<"Ngemba">>
          ELSE IF HasKeyword(title_lower, {"grenier du hausa", "grenier hausa"})
               THEN <<"Hausa">>
          ELSE <<"Other">>

\* ------------------------------------------------------ BookMetadataMapper
ColumnPairs(df, col) == [i \in 1..Len(df) |-> [k |-> df[i].Title, v |-> df[i][col]]]

\* BookMetadataMapper._create_mappings
CreateMappingsOf(books_df) ==
  LET author_pairs == ColumnPairs(books_df, "authors")
      language_pairs == ColumnPairs(books_df, "language_name")
      language_mapping == DictOf(language_pairs)
  IN [author_mapping |-> DictOf(author_pairs),
      language_mapping |-> language_mapping,
      _language_lookup |->
         NormalizedLookup(KeysInOrder(language_pairs), language_mapping,
            {t \in DOMAIN language_mapping :
               IsStr(t) /\ IsStr(language_mapping[t])}),
      _nickname_lookup |->
         NormalizedLookup(KeysInOrder(BOOK_NICKNAME_MAPPING), NicknameDict,
            DOMAIN NicknameDict)]

Returned(value, place) == [ret |-> value, at |-> place]

\* the fallback returns the title as given, not trimmed
get_book_nickname_RawFallback(title, m) ==
  IF ~IsStr(title) THEN Returned(title, "nonstr")
  ELSE LET title_stripped == Strip(title)
           title_normalized == _normalize_for_matching(title_stripped)
       IN IF title_stripped \in DOMAIN NicknameDict
          THEN Returned(NicknameDict[title_stripped], "exact")
          ELSE IF title_normalized \in DOMAIN m._nickname_lookup
               THEN Returned(m._nickname_lookup[title_normalized], "normalized")
          ELSE Returned(title, "fallback")

\* BookMetadataMapper.get_book_nickname; "at" names the return statement
get_book_nickname(title, m) ==
  IF ~IsStr(title) THEN Returned(title, "nonstr")
  ELSE LET title_stripped == Strip(title)
           title_normalized == _normalize_for_matching(title_stripped)
       IN IF title_stripped \in DOMAIN NicknameDict
          THEN Returned(NicknameDict[title_stripped], "exact")
          ELSE IF title_normalized \in DOMAIN m._nickname_lookup
               THEN Returned(m._nickname_lookup[title_normalized], "normalized")
          ELSE Returned(title_stripped, "fallback")

DefaultAuthors == <<"Resulam", "COMMA", "SP", "Shck Tchamna">>

YembaAuthors ==
  <<"Giresse Jiokeng Feutsa", "COMMA", "SP", "Oliver Germain Tafouemewe",
    "COMMA", "SP", "Shck Tchamna">>

\* the catalog is looked up before the hardcoded rules
get_authors_CatalogFirst(title, m) ==
  IF ~IsStr(title) THEN Returned(<<"TypeError">>, "raise")
  ELSE IF title \in DOMAIN m.author_mapping
       THEN Returned(m.author_mapping[title], "catalog")
  ELSE IF Contains(title, <<"GY">>) THEN Returned(YembaAuthors, "override")
  ELSE Returned(DefaultAuthors, "default")

\* BookMetadataMapper.get_authors; a title that is not a str makes the
\* first  in  test raise TypeError
get_authors(title, m) ==
  IF ~IsStr(title) THEN Returned(<<"TypeError">>, "raise")
  ELSE IF Contains(title, <<"GY">>) THEN Returned(YembaAuthors, "override")
  ELSE IF Contains(title, <<"CM_BW">>)
       THEN Returned(<<"Leopold Tchoumi">>, "override")
  ELSE IF Contains(title, <<"YORUBA">>) THEN Returned(DefaultAuthors, "override")
  ELSE IF Contains(title, <<"NGEMBA">>)
       THEN Returned(<<"Deeh Segallo", "COMMA", "SP", "Resulam", "COMMA", "SP",
                       "Shck Tchamna">>, "override")
  ELSE IF Contains(title, <<"FOURMI", "APOS">>)
       THEN Returned(DefaultAuthors, "override")
  ELSE IF HasKeyword(Lower(title), {"nufi_accented", "nufi", "fe'efe'e"})
       THEN Returned(DefaultAuthors, "override")
  ELSE IF title \in DOMAIN m.author_mapping
       THEN Returned(m.author_mapping[title], "catalog")
  ELSE Returned(DefaultAuthors, "default")

\* isinstance(lang, str) and lang
Usable(lang) == IsStr(lang) /\ lang # <<>>

\* the keyword classifier is asked before the normalized catalog lookup
get_language_KeywordFirst(title, m) ==
  IF ~IsStr(title) THEN Returned(<<"Other">>, "nonstr")
  ELSE LET title_stripped == Strip(title)
           title_normalized == _normalize_for_matching(title_stripped)
       IN IF /\ title_stripped \in DOMAIN m.language_mapping
             /\ Usable(m.language_mapping[title_stripped])
          THEN Returned(m.language_mapping[title_stripped], "exact")
          ELSE IF classify_language(title_stripped) # <<"Other">>
               THEN Returned(classify_language(title_stripped), "keyword")
          ELSE IF title_normalized \in DOMAIN m._language_lookup
               THEN Returned(m._language_lookup[title_normalized], "normalized")
          ELSE Returned(<<"Other">>, "keyword")

\* BookMetadataMapper.get_language; "at" names the return statement
get_language(title, m) ==
  IF ~IsStr(title) THEN Returned(<<"Other">>, "nonstr")
  ELSE LET title_stripped == Strip(title)
           title_normalized == _normalize_for_matching(title_stripped)
       IN IF /\ title_stripped \in DOMAIN m.language_mapping
             /\ Usable(m.language_mapping[title_stripped])
          THEN Returned(m.language_mapping[title_stripped], "exact")
          ELSE IF title_normalized \in DOMAIN m._language_lookup
               THEN Returned(m._language_lookup[title_normalized], "normalized")
          ELSE Returned(classify_language(title_stripped), "keyword")

\* ----------------------------------------------- specification: royalties
CreditAtoms == {"Resulam", "RESULAM", "Jane", "Tchamna", "COMMA", "SP"}

Credits == StrUpTo(CreditAtoms, MaxCreditLen) \cup {NaN}

\* Royalty, in cents: a refund, nothing, 10.00
Royalties == {-250, 0, 1000}

Currencies == {"EUR", "JPY", "XAF"}

RateTables == {EXCHANGE_RATES_HARDCODED, [USD |-> RateOne]}

Id(t, v) == [t |-> t, v |-> v]

RoyaltyLists == [ebook |-> {Id("str", "B0")}, paper |-> {Id("str", "1")},
                 hardcover |-> {Id("str", "2")}]

RoyaltyInit ==
  /\ pc = "royalties"
  /\ text = <<>>
  /\ res = <<>>
  /\ \E a \in Credits, r \in Royalties, c \in Currencies :
        row = [Title |-> <<>>, Authors |-> a, Royalty |-> r, Currency |-> c,
               ISBN |-> Id("str", "B0")]
  /\ rates \in RateTables
  /\ lists = RoyaltyLists
  /\ out = <<>>
  /\ exploded = <<>>
  /\ sheets = NoLists
  /\ CatalogIdle
  /\ EnvIdle

\* RoyaltiesProcessor.process_royalties, exchange_rates given
ProcessRoyalties ==
  /\ pc = "royalties"
  /\ out' = ProcessedColumns(row, rates, lists)
  /\ pc' = "explode"
  /\ UNCHANGED <<text, res, row, rates, lists, exploded, sheets, catalogVars, envVars>>

\* RoyaltiesProcessor.explode_authors: every other column is repeated
ExplodeAuthors ==
  /\ pc = "explode"
  /\ exploded' = LET names == ExplodedAuthors(row.Authors)
                 IN [i \in 1..Len(names) |->
                       [Authors_Exploded |-> names[i], Authors |-> row.Authors,
                        AuthorsCount |-> out.AuthorsCount,
                        RoyaltyUSD |-> out.RoyaltyUSD,
                        RoyaltyPerAuthor |-> out.RoyaltyPerAuthor,
                        BookType |-> out.BookType]]
  /\ pc' = "done"
  /\ UNCHANGED <<text, res, row, rates, lists, out, sheets, catalogVars, envVars>>

RoyaltyNext == ProcessRoyalties \/ ExplodeAuthors

SpecRoyalty == RoyaltyInit /\ [][RoyaltyNext]_vars

Processed == pc \in {"explode", "done"}

\* the segments of a credit string, trimmed and lowercased
Segments(s) ==
  LET segs == Split(s, "COMMA") IN {Lower(Strip(segs[i])) : i \in 1..Len(segs)}

\* the number of commas of s
NumCommas(s) == Cardinality({i \in 1..Len(s) : s[i] = "COMMA"})

\* C2 as stated: the count is the number of comma-separated segments, plus 1
\* unless the publisher's name is itself one of the segments.
C2_SegmentRule ==
  (Processed /\ IsStr(row.Authors)) =>
    out.AuthorsCount = NumCommas(row.Authors) + 1
        + (IF <<"resulam">> \in Segments(row.Authors) THEN 0 ELSE 1)

\* C2 amended: the count is the number of comma-separated segments, plus 1
\* unless the text "resulam" occurs anywhere in the lowercased string, be it
\* a whole segment or part of a longer one.
C2_SubstringRule ==
  (Processed /\ IsStr(row.Authors)) =>
    out.AuthorsCount = NumCommas(row.Authors) + 1
        + (IF \E i \in 1..Len(row.Authors) :
                 row.Authors[i] \in {"Resulam", "RESULAM"} THEN 0 ELSE 1)

C2_Witness ==
  /\ Processed
  /\ row.Authors = <<"Resulam", "SP", "Jane">>
  /\ out.AuthorsCount = 1

\* exchange_rates.get(currency, 1.0), read off the table
RateOf(c) == IF c \in DOMAIN rates THEN rates[c] ELSE RateOne

\* C3: Royalty USD is Royalty times the currency's rate, 1.0 for a currency
\* the table lacks; Royalty per Author (USD) is exactly Royalty USD divided by
\* Authors Count; a credit string that is just the publisher keeps it whole.
C3_Conversion ==
  Processed =>
    /\ out.RoyaltyUSD = row.Royalty * RateOf(row.Currency)
    /\ RatEq(RatTimes(out.AuthorsCount, out.RoyaltyPerAuthor),
             Rat(out.RoyaltyUSD, 1))
    /\ (row.Authors = <<"Resulam">> =>
          RatEq(out.RoyaltyPerAuthor, Rat(out.RoyaltyUSD, 1)))

C3_Witness ==
  /\ Processed
  /\ row.Authors = <<"Resulam">> /\ row.Royalty = 1000
  /\ row.Currency = "XAF" /\ rates = EXCHANGE_RATES_HARDCODED
  /\ out.RoyaltyUSD = 1000 * RateOne
  /\ out.RoyaltyPerAuthor = Rat(1000 * RateOne, 1)

RECURSIVE SumPerAuthor(_)
SumPerAuthor(rows) ==
  IF rows = <<>> THEN Rat(0, 1)
  ELSE RatAdd(Head(rows).RoyaltyPerAuthor, SumPerAuthor(Tail(rows)))

NamesPublisher(s) == \E i \in 1..Len(s) : s[i] \in {"Resulam", "RESULAM"}

\* C4 as stated: for every record the exploded rows' shares add up to
\* Authors Count times the share, the record's Royalty USD.
C4_SumIsTotal ==
  pc = "done" =>
    /\ RatEq(SumPerAuthor(exploded),
             RatTimes(out.AuthorsCount, out.RoyaltyPerAuthor))
    /\ RatEq(SumPerAuthor(exploded), Rat(out.RoyaltyUSD, 1))

\* C4 amended: the exploded rows' shares add up to Authors Count times the
\* share (the record's Royalty USD) when the credit string names the
\* publisher or is not a string, and to (Authors Count - 1) times the share
\* when it does not: the implicit publisher has no row.
C4_SumIsListedShares ==
  pc = "done" =>
    IF ~IsStr(row.Authors) \/ NamesPublisher(row.Authors)
    THEN /\ RatEq(SumPerAuthor(exploded),
                  RatTimes(out.AuthorsCount, out.RoyaltyPerAuthor))
         /\ RatEq(SumPerAuthor(exploded), Rat(out.RoyaltyUSD, 1))
    ELSE RatEq(SumPerAuthor(exploded),
               RatTimes(out.AuthorsCount - 1, out.RoyaltyPerAuthor))

C4_Witness ==
  /\ pc = "done"
  /\ row.Authors = <<"Jane", "COMMA", "Tchamna">> /\ row.Royalty = 1000
  /\ out.AuthorsCount = 3
  /\ Len(exploded) = 2

\* C15: explode_authors is a pure fan-out: a record whose credit string has
\* n comma-separated segments gives exactly n rows, row i carrying segment i
\* trimmed and mapped through AUTHOR_NORMALIZATION, every other column equal
\* to the record's; no segment is dropped, the publisher's rows included.
C15_FanOut ==
  (pc = "done" /\ IsStr(row.Authors)) =>
    LET segs == Split(row.Authors, "COMMA")
    IN /\ Len(exploded) = NumCommas(row.Authors) + 1
       /\ \A i \in 1..Len(exploded) :
            /\ exploded[i].Authors_Exploded = ReplaceAuthor(Strip(segs[i]))
            /\ exploded[i].Authors = row.Authors
            /\ exploded[i].AuthorsCount = out.AuthorsCount
            /\ exploded[i].RoyaltyUSD = out.RoyaltyUSD
            /\ exploded[i].RoyaltyPerAuthor = out.RoyaltyPerAuthor
            /\ exploded[i].BookType = out.BookType

\* the publisher and a name variant, each on a row of its own
C15_Witness ==
  /\ pc = "done"
  /\ row.Authors = <<"Resulam", "COMMA", "Tchamna">>
  /\ Len(exploded) = 2
  /\ exploded[1].Authors_Exploded = <<"Resulam">>
  /\ exploded[2].Authors_Exploded = <<"Shck Tchamna">>
  /\ exploded[2].RoyaltyUSD = out.RoyaltyUSD

\* C29: Authors Count is at least 1 for every credit value, a string (the
\* empty one and one with empty segments included) or not, and exactly 1
\* for a value that is not a string; the divisor of Royalty per Author (USD)
\* is therefore never zero.
C29_CountAtLeastOne ==
  Processed =>
    /\ out.AuthorsCount >= 1
    /\ (~IsStr(row.Authors) => out.AuthorsCount = 1)
    /\ out.RoyaltyPerAuthor.d = out.AuthorsCount
    /\ out.RoyaltyPerAuthor.d # 0

\* the empty string: one empty segment and the implicit publisher
C29_Witness ==
  /\ Processed
  /\ row.Authors = <<>>
  /\ out.AuthorsCount = 2
  /\ out.RoyaltyPerAuthor = Rat(out.RoyaltyUSD, 2)

\* C30: a record with a string credit gets as many exploded rows as its
\* Authors Count when the publisher's name occurs in the credit, in any
\* case, and one row fewer when it does not; the rows' shares add up to
\* Royalty USD in the first case and to Royalty USD times
\* (Authors Count - 1) / Authors Count in the second.
C30_RowsPerCount ==
  (pc = "done" /\ IsStr(row.Authors)) =>
    LET listed == IF NamesPublisher(row.Authors)
                  THEN out.AuthorsCount ELSE out.AuthorsCount - 1
    IN /\ Len(exploded) = listed
       /\ RatEq(SumPerAuthor(exploded),
                Rat(out.RoyaltyUSD * listed, out.AuthorsCount))

\* one author and the implicit publisher: one row with half the royalty
C30_Witness ==
  /\ pc = "done"
  /\ row.Royalty = 1000
  /\ row.Authors = <<"Jane">>
  /\ out.AuthorsCount = 2
  /\ Len(exploded) = 1
  /\ RatEq(SumPerAuthor(exploded), Rat(out.RoyaltyUSD, 2))

\* ------------------------------------------------- specification: mapper
TitleAtoms ==
  {"GY", "FY", "FONGBE", "FOURMI_NUFI", "APOS", "RSQUO", "DOT", "SP"}

Titles == StrUpTo(TitleAtoms, MaxTitleLen) \cup {NaN}

CatalogRow(t, a, l) == [Title |-> t, authors |-> a, language_name |-> l]

\* rows of the cleaned catalog: a language the classifier would not give, a
\* missing and an empty language, two titles with one normalized text,
\* titles that the hardcoded author rules cover
CatalogRows ==
  {CatalogRow(YembaTitle, <<"Jane">>, <<"Yemba">>),
   CatalogRow(<<"FONGBE", "DOT">>, <<"Jane">>, <<"Ewondo">>),
   CatalogRow(<<"FONGBE", "DOT">>, NaN, NaN),
   CatalogRow(<<"FONGBE", "DOT">>, <<"Shck Tchamna">>, <<>>),
   CatalogRow(<<"FONGBE">>, <<"Shck Tchamna">>, <<"Fongbe">>),
   CatalogRow(<<"FOURMI_NUFI", "APOS">>, <<"Jane">>, <<"Ewondo">>)}

Catalogs == StrUpTo(CatalogRows, MaxBooks)

MapperInit ==
  /\ pc = "create"
  /\ text = <<>>
  /\ res = <<>>
  /\ TableIdle
  /\ books \in Catalogs
  /\ mapper = <<>>
  /\ EnvIdle

\* BookMetadataMapper.__init__
CreateMappings ==
  /\ pc = "create"
  /\ mapper' = CreateMappingsOf(books)
  /\ pc' = "lookup"
  /\ UNCHANGED <<text, res, tableVars, books, envVars>>

GetBookNickname ==
  /\ pc = "lookup"
  /\ \E title \in Titles :
        /\ text' = title
        /\ res' = get_book_nickname(title, mapper)
  /\ pc' = "nickname"
  /\ UNCHANGED <<tableVars, catalogVars, envVars>>

GetAuthors ==
  /\ pc = "lookup"
  /\ \E title \in Titles :
        /\ text' = title
        /\ res' = get_authors(title, mapper)
  /\ pc' = "authors"
  /\ UNCHANGED <<tableVars, catalogVars, envVars>>

GetLanguage ==
  /\ pc = "lookup"
  /\ \E title \in Titles :
        /\ text' = title
        /\ res' = get_language(title, mapper)
  /\ pc' = "language"
  /\ UNCHANGED <<tableVars, catalogVars, envVars>>

MapperNext == CreateMappings \/ GetBookNickname \/ GetAuthors \/ GetLanguage

SpecMapper == MapperInit /\ [][MapperNext]_vars

\* the value the catalog column col holds for title t: the one of the last
\* row with that title
CatalogValue(t, col, v) ==
  \E i \in 1..Len(books) :
    /\ books[i].Title = t
    /\ books[i][col] = v
    /\ \A j \in (i + 1)..Len(books) : books[j].Title # t

InCatalog(t) == \E i \in 1..Len(books) : books[i].Title = t

\* the hardcoded rules of get_authors, in the order the code tests them
AuthorOverrides ==
  << [sub |-> <<"GY">>, authors |-> YembaAuthors],
     [sub |-> <<"CM_BW">>, authors |-> <<"Leopold Tchoumi">>],
     [sub |-> <<"YORUBA">>, authors |-> DefaultAuthors],
     [sub |-> <<"NGEMBA">>,
      authors |-> <<"Deeh Segallo", "COMMA", "SP", "Resulam", "COMMA", "SP",
                    "Shck Tchamna">>],
     [sub |-> <<"FOURMI", "APOS">>, authors |-> DefaultAuthors] >>

Overridden(t) == {i \in 1..Len(AuthorOverrides) : Contains(t, AuthorOverrides[i].sub)}

\* the last hardcoded rule: a Nufi keyword in the lowercased title
NufiTitle(t) == \E i \in 1..Len(t) : t[i] = "FOURMI_NUFI"

\* C7: get_authors answers from the first hardcoded override whose substring
\* the title contains, whatever the catalog holds for the title; otherwise
\* from the catalog entry of the exact title; otherwise with the default.
\* The Yemba phrasebook title always gets its three hand-verified authors.
C7_AuthorsChain ==
  (pc = "authors" /\ IsStr(text)) =>
    /\ Overridden(text) # {} =>
         LET first == CHOOSE i \in Overridden(text) :
                        \A j \in Overridden(text) : i <= j
         IN res.ret = AuthorOverrides[first].authors
    /\ (Overridden(text) = {} /\ NufiTitle(text)) => res.ret = DefaultAuthors
    /\ (Overridden(text) = {} /\ ~NufiTitle(text) /\ InCatalog(text)) =>
         CatalogValue(text, "authors", res.ret)
    /\ (Overridden(text) = {} /\ ~InCatalog(text)) => res.ret = DefaultAuthors
    /\ Contains(text, <<"GY">>) => res.ret = YembaAuthors

C7_Witness ==
  /\ pc = "authors"
  /\ text = YembaTitle
  /\ CatalogValue(YembaTitle, "authors", <<"Jane">>)
  /\ res.ret = YembaAuthors

NicknameOf(t, v) ==
  \E i \in 1..Len(BOOK_NICKNAME_MAPPING) :
    BOOK_NICKNAME_MAPPING[i].k = t /\ BOOK_NICKNAME_MAPPING[i].v = v

IsNicknameKey(t) == \E i \in 1..Len(BOOK_NICKNAME_MAPPING) : BOOK_NICKNAME_MAPPING[i].k = t

\* C8: get_book_nickname answers with the nickname of the trimmed title when
\* it is a key of the nickname table; otherwise with the nickname of a key
\* whose normalized text is the title's normalized text; otherwise with the
\* trimmed title itself.  It returns for every string.
C8_NicknameChain ==
  (pc = "nickname" /\ IsStr(text)) =>
    LET trimmed == Strip(text)
        normalized == _normalize_for_matching(trimmed)
        sameNorm == {i \in 1..Len(BOOK_NICKNAME_MAPPING) :
                       _normalize_for_matching(BOOK_NICKNAME_MAPPING[i].k) = normalized}
    IN /\ res.at \in {"exact", "normalized", "fallback"}
       /\ IsNicknameKey(trimmed) => (res.at = "exact" /\ NicknameOf(trimmed, res.ret))
       /\ (~IsNicknameKey(trimmed) /\ sameNorm # {}) =>
            /\ res.at = "normalized"
            /\ \E i \in sameNorm : res.ret = BOOK_NICKNAME_MAPPING[i].v
       /\ (~IsNicknameKey(trimmed) /\ sameNorm = {}) =>
            (res.at = "fallback" /\ res.ret = trimmed)

C8_Witness ==
  /\ pc = "nickname"
  /\ text = <<"SP", "FOURMI_NUFI", "RSQUO">>
  /\ res = Returned(<<"nufi_fourmi_affamee">>, "normalized")

KnownTitles ==
  IF pc = "nickname"
  THEN {BOOK_NICKNAME_MAPPING[i].k : i \in 1..Len(BOOK_NICKNAME_MAPPING)}
  ELSE {books[i].Title : i \in 1..Len(books)}

\* what the lookup just made returns for the title t
SameLookup(t) ==
  CASE pc = "nickname" -> get_book_nickname(t, mapper).ret
    [] pc = "authors" -> get_authors(t, mapper).ret
    [] pc = "language" -> get_language(t, mapper).ret

\* C10: a title whose normalized text is that of a known title gets from
\* each of the three lookups what the known title gets.
C10_VariantsAgree ==
  (pc \in {"nickname", "authors", "language"} /\ IsStr(text)) =>
    \A t \in KnownTitles :
      _normalize_for_matching(text) = _normalize_for_matching(t) =>
        res.ret = SameLookup(t)

\* ------------------------------------------ specification: classifier
\* most words of a title handed to the classifier
MaxWords == 2

\* words of a title: one with a keyword of each language, in upper or in
\* lower case; the two parts of the Nufi title that is tested as written; a
\* word with no keyword
LanguageWords ==
  {"FOURMI_NUFI", "FOURMI", "APOS", "CM_BW", "GY", "YORUBA", "duala",
   "FONGBE", "chichewa", "tshiluba", "twi", "bamoun", "shupamom", "NGEMBA",
   "grenier hausa", "SP"}

ClassifierInit ==
  /\ pc = "classify"
  /\ text \in StrUpTo(LanguageWords, MaxWords)
  /\ res = <<>>
  /\ TableIdle
  /\ CatalogIdle
  /\ EnvIdle

\* LanguageClassifier.classify_language(title)
ClassifyLanguage ==
  /\ pc = "classify"
  /\ res' = classify_language(text)
  /\ pc' = "classified"
  /\ UNCHANGED <<text, tableVars, catalogVars, envVars>>

ClassifierNext == ClassifyLanguage

SpecClassifier == ClassifierInit /\ [][ClassifierNext]_vars

\* the keyword groups of classify_language in the order of its if/elif
\* chain: the keywords looked for in the lowercased title and the phrases
\* looked for in the title as written
LanguageGroups ==
  << [language |-> <<"Nufi">>, lower |-> {"nufi_accented", "nufi", "fe'efe'e"},
      exact |-> {<<"FOURMI", "APOS">>, <<"FOURMI_NUFI", "APOS">>}],
     [language |-> <<"Medumba">>, lower |-> {"medumba"}, exact |-> {}],
     [language |-> <<"Yemba">>, lower |-> {"yemba"}, exact |-> {}],
     [language |-> <<"Yoruba">>, lower |-> {"yoruba"}, exact |-> {}],
     [language |-> <<"Duala">>, lower |-> {"duala"}, exact |-> {}],
     [language |-> <<"Fongbe">>, lower |-> {"fongbe"}, exact |-> {}],
     [language |-> <<"Chichewa">>, lower |-> {"chichewa"}, exact |-> {}],
     [language |-> <<"Tshiluba">>, lower |-> {"tshiluba"}, exact |-> {}],
     [language |-> <<"Twi">>, lower |-> {"twi"}, exact |-> {}],
     [language |-> <<"Bamoun">>, lower |-> {"shupamom", "bamoun"}, exact |-> {}],
     [language |-> <<"Ngemba">>, lower |-> {"grenier du nguemba"},
      exact |-> {<<"NGEMBA">>}],
     [language |-> <<"Hausa">>, lower |-> {"grenier du hausa", "grenier hausa"},
      exact |-> {}] >>

\* the groups with a keyword that is a substring of the title
MatchingGroups(title) ==
  {i \in 1..Len(LanguageGroups) :
     \/ HasKeyword(Lower(title), LanguageGroups[i].lower)
     \/ \E phrase \in LanguageGroups[i].exact : Contains(title, phrase)}

\* C21: classify_language is a total first-match classifier: every string
\* title gets the language of the first group, in the order Nufi, Medumba,
\* Yemba, Yoruba, Duala, Fongbe, Chichewa, Tshiluba, Twi, Bamoun, Ngemba,
\* Hausa, that has a keyword in it, and "Other" when no group has; a title
\* with keywords of two languages gets the earlier one.
C21_FirstMatch ==
  (pc = "classified" /\ IsStr(text)) =>
    LET hits == MatchingGroups(text)
    IN IF hits = {} THEN res = <<"Other">>
       ELSE \E i \in hits :
              /\ \A j \in hits : i <= j
              /\ res = LanguageGroups[i].language

\* a Fongbe keyword stands before a Duala keyword in the title
C21_Witness ==
  /\ pc = "classified"
  /\ text = <<"FONGBE", "duala">>
  /\ res = <<"Duala">>

\* --------------------------------------------------- ExchangeRateManager
\* Python None
None == [none |-> TRUE]

\* the empty dict
EmptyDict == [c \in {} |-> 0]

IsNone(d) == "none" \in DOMAIN d

\* bool(d) of a dict or None
Truthy(d) == ~IsNone(d) /\ DOMAIN d # {}

\* 1 / rate for a rate in units of 1/10000, in the same unit
Invert(rate) == (RateOne * RateOne) \div rate

\* what the rate API can answer: USD-based tables (a good one, one with a
\* zero rate, one with no currency), JSON without a 'rates' key, text that
\* is not JSON, an HTTP error status, no answer within the timeout
LiveTables == {[USD |-> 10000, EUR |-> 8000], [USD |-> 10000, EUR |-> 0],
               EmptyDict}

Response(kind, table) == [kind |-> kind, rates |-> table]

Responses ==
  {Response(k, EmptyDict) : k \in {"http_error", "timeout", "malformed",
                                    "no_rates"}}
    \cup {Response("ok", t) : t \in LiveTables}

\* ExchangeRateManager.__init__: cache_hours: int = 24
cache_hours == 24

\* the latest clock reading of a run of the exchange-rate specification
MaxClock == 48

\* rate tables a cache file can hold
CachedTables == {[USD |-> 10000, EUR |-> 12000], EmptyDict}

\* the cache file: absent, not parseable, or a table and the time, in
\* hours, at which it was written
CacheFile(kind, table, timestamp) ==
  [kind |-> kind, rates |-> table, timestamp |-> timestamp]

\* at time 0: no file, a file that cannot be read, a file written just now
\* or cache_hours ago
CacheFiles ==
  {CacheFile("absent", EmptyDict, 0), CacheFile("corrupt", EmptyDict, 0)}
    \cup {CacheFile("valid", t, at) : t \in CachedTables,
                                      at \in {0 - cache_hours, 0}}

\* the cache directory (present, absent, absent where none can be made)
\* with the file in it
CacheStates ==
  {[dir |-> "absent", file |-> CacheFile("absent", EmptyDict, 0)],
   [dir |-> "blocked", file |-> CacheFile("absent", EmptyDict, 0)]}
    \cup {[dir |-> "present", file |-> f] : f \in CacheFiles}

\* how writing the cache file ends: written, refused before the file is
\* touched, failed after the file was truncated
WriteOutcomes == {"written", "refused", "truncated"}

\* the hardcoded_fallback argument
Fallbacks == {EXCHANGE_RATES_HARDCODED, EmptyDict, None}

\* a file as old as cache_hours still counts as valid
_load_cache_Inclusive(file, clock) ==
  IF file.kind = "valid" /\ clock - file.timestamp <= cache_hours
  THEN file.rates ELSE None

\* ExchangeRateManager._load_cache at the time clock: age_hours < cache_hours
_load_cache(file, clock) ==
  IF file.kind = "valid" /\ clock - file.timestamp < cache_hours
  THEN file.rates ELSE None

\* the messages _load_cache prints
LoadCacheLog(file, clock) ==
  IF file.kind = "corrupt" THEN {"Failed to load cache"}
  ELSE IF file.kind = "valid" /\ clock - file.timestamp >= cache_hours
       THEN {"Exchange rate cache expired"}
  ELSE {}

\* ExchangeRateManager._fetch_live_rates: every exception, the
\* ZeroDivisionError of 1/rate included, is caught and gives None
_fetch_live_rates(response) ==
  IF response.kind # "ok" THEN None
  ELSE IF \E c \in DOMAIN response.rates : response.rates[c] = 0 THEN None
  ELSE [c \in DOMAIN response.rates |-> Invert(response.rates[c])]

\* the messages _fetch_live_rates prints
FetchLog(response) ==
  IF response.kind = "no_rates" THEN {}
  ELSE IF IsNone(_fetch_live_rates(response)) THEN {"exchangerate-api failed"}
  ELSE {"Successfully fetched rates"}

\* ExchangeRateManager._save_cache at the time clock: the file after the
\* attempt
_save_cache(file, new_rates, write, clock) ==
  CASE write = "written" -> CacheFile("valid", new_rates, clock)
    [] write = "refused" -> file
    [] write = "truncated" -> CacheFile("corrupt", EmptyDict, 0)

\* the cache is not looked at: the fallback is used whenever no live
\* rates are
get_rates_CacheSkipped(file, use_live, response, write, hardcoded_fallback, clock) ==
  LET live_rates == _fetch_live_rates(response)
  IN IF use_live /\ Truthy(live_rates)
     THEN [ret |-> live_rates,
           file |-> _save_cache(file, live_rates, write, clock),
           log |-> {"Using LIVE exchange rates"}]
     ELSE IF Truthy(hardcoded_fallback)
     THEN [ret |-> hardcoded_fallback, file |-> file,
           log |-> {"Using hardcoded exchange rates"}]
     ELSE [ret |-> [USD |-> RateOne], file |-> file,
           log |-> {"No rates available, using defaults"}]

\* ExchangeRateManager.get_rates at the time clock: the table returned, the
\* cache file it leaves and the messages printed
get_rates(file, use_live, response, write, hardcoded_fallback, clock) ==
  LET cached_rates == _load_cache(file, clock)
      live_rates == _fetch_live_rates(response)
      tried == IF use_live
               THEN LoadCacheLog(file, clock) \cup FetchLog(response)
               ELSE LoadCacheLog(file, clock)
      failed == IF use_live
                THEN tried \cup {"Failed to fetch live rates, using fallback"}
                ELSE tried
  IN IF Truthy(cached_rates) /\ ~use_live
     THEN [ret |-> cached_rates, file |-> file,
           log |-> tried \cup {"Using cached exchange rates"}]
     ELSE IF use_live /\ Truthy(live_rates)
     THEN [ret |-> live_rates,
           file |-> _save_cache(file, live_rates, write, clock),
           log |-> tried \cup {"Using LIVE exchange rates"}
                     \cup (IF write = "written" THEN {}
                           ELSE {"Failed to save cache"})]
     ELSE IF Truthy(hardcoded_fallback)
     THEN [ret |-> hardcoded_fallback, file |-> file,
           log |-> failed \cup {"Using hardcoded exchange rates"}]
     ELSE [ret |-> [USD |-> RateOne], file |-> file,
           log |-> failed \cup {"No rates available, using defaults"}]

\* ExchangeRateManager.__init__: cache_dir.mkdir(exist_ok=True) is outside
\* any try; it raises where the directory is absent and cannot be made
ManagerRaises(c) == c.dir = "blocked"

\* an exception: its type and what its message names
Raised(type, names) == [type |-> type, names |-> names]

\* ------------------------------------------- specification: exchange rates
RatesInit ==
  /\ pc = "rates"
  /\ text = <<>>
  /\ res = <<>>
  /\ TableIdle
  /\ CatalogIdle
  /\ files = <<>>
  /\ cache \in CacheStates
  /\ fetch = <<>>
  /\ err = <<>>
  /\ log = {}
  /\ prev = <<>>
  /\ now = 0
  /\ sync = <<>>
  /\ hook = <<>>

\* what the call leaves of an earlier call's cached rates: a call that
\* fetches and writes puts its own rates and time in their place, a write
\* that fails after the file was truncated leaves none
CachedBy(use_live, response, write) ==
  IF use_live /\ Truthy(_fetch_live_rates(response))
  THEN CASE write = "written" ->
              [rates |-> _fetch_live_rates(response), timestamp |-> now]
         [] write = "refused" -> prev
         [] write = "truncated" -> <<>>
  ELSE prev

\* get_exchange_rates: a manager is made and asked for the rates
GetExchangeRates ==
  /\ pc \in {"rates", "rates_done"}
  /\ \E use_live \in BOOLEAN, response \in Responses, write \in WriteOutcomes,
        hardcoded_fallback \in Fallbacks :
        /\ fetch' = [use_live |-> use_live, response |-> response,
                     hardcoded_fallback |-> hardcoded_fallback,
                     cached |-> _load_cache(cache.file, now), at |-> now]
        /\ IF ManagerRaises(cache)
           THEN /\ err' = Raised("OSError", <<"cache_dir">>)
                /\ pc' = "raised"
                /\ UNCHANGED <<rates, cache, log, prev>>
           ELSE LET got == get_rates(cache.file, use_live, response, write,
                                     hardcoded_fallback, now)
                IN /\ rates' = got.ret
                   /\ cache' = [dir |-> "present", file |-> got.file]
                   /\ log' = got.log
                   /\ prev' = CachedBy(use_live, response, write)
                   /\ pc' = "rates_done"
                   /\ err' = err
  /\ UNCHANGED <<text, res, row, lists, out, exploded, sheets, catalogVars,
                 files, now, serviceVars>>

\* time passes between two calls: one hour less than cache_hours, or
\* cache_hours
Wait ==
  /\ pc = "rates_done"
  /\ \E hours \in {cache_hours - 1, cache_hours} :
        /\ now + hours <= MaxClock
        /\ now' = now + hours
  /\ UNCHANGED <<pc, text, res, tableVars, catalogVars, files, cache, fetch,
                 err, log, prev, serviceVars>>

RatesNext == GetExchangeRates \/ Wait

SpecRates == RatesInit /\ [][RatesNext]_vars

\* the live fetch of the last call failed
LiveFailed == pc = "rates_done" /\ fetch.use_live
                /\ ~Truthy(_fetch_live_rates(fetch.response))

\* C12: when get_rates is called with use_live=True and the live fetch
\* fails, it returns the cached rates if an unexpired cache exists, and the
\* hardcoded table only when no valid cache is available.
C12_CachedThenHardcoded ==
  LiveFailed =>
    IF Truthy(fetch.cached) THEN rates = fetch.cached
    ELSE rates = (IF Truthy(fetch.hardcoded_fallback)
                  THEN fetch.hardcoded_fallback ELSE [USD |-> RateOne])

\* C13: whatever the live fetch, the cache, the cache write and the fallback
\* table are, get_exchange_rates returns a rate table and raises nothing.
C13_NeverFails ==
  pc # "rates" =>
    /\ err = <<>>
    /\ pc = "rates_done"
    /\ Truthy(rates)
    /\ \A c \in DOMAIN rates : rates[c] \in Nat \ {0}

\* the last call did not ask for live rates
CacheOnly == pc = "rates_done" /\ ~fetch.use_live

\* C22: when live rates are not requested, get_rates returns the unexpired
\* cached table if one exists (a table with no rate in it counts as none),
\* otherwise the hardcoded fallback table if one is supplied, otherwise the
\* table {'USD': 1.0}; with the default of convert_to_usd, every currency
\* the returned table lacks converts at the rate 1.
C22_CacheThenFallback ==
  CacheOnly =>
    /\ rates = (IF /\ cache.file.kind = "valid"
                   /\ fetch.at - cache.file.timestamp < cache_hours
                   /\ DOMAIN cache.file.rates # {}
                THEN cache.file.rates
                ELSE IF Truthy(fetch.hardcoded_fallback)
                     THEN fetch.hardcoded_fallback
                ELSE [USD |-> RateOne])
    /\ \A c \in (Currencies \cup {"USD", "EUR"}) \ DOMAIN rates,
          r \in Royalties :
          convert_to_usd([Royalty |-> r, Currency |-> c], rates) = r * RateOne

\* an unexpired cache is answered from although a fallback table is given
C22_Witness ==
  /\ CacheOnly
  /\ fetch.cached = [USD |-> 10000, EUR |-> 12000]
  /\ fetch.hardcoded_fallback = EXCHANGE_RATES_HARDCODED
  /\ rates = [USD |-> 10000, EUR |-> 12000]

\* C23: fetched rates are cached for cache_hours: after a call with
\* use_live=True that fetched and wrote the cache at time t, and until a
\* later call touches the cache file, a call with use_live=False at time t'
\* returns exactly the fetched rates when t' - t < cache_hours, and ignores
\* the cache and returns the hardcoded fallback (the table {'USD': 1.0} when
\* none is supplied) when t' - t >= cache_hours.
C23_CachedForTTL ==
  (CacheOnly /\ DOMAIN prev # {}) =>
    IF fetch.at - prev.timestamp < cache_hours
    THEN rates = prev.rates
    ELSE rates = (IF Truthy(fetch.hardcoded_fallback)
                  THEN fetch.hardcoded_fallback ELSE [USD |-> RateOne])

\* one hour before the cache expires the fetched rates are returned
C23_Witness ==
  /\ CacheOnly
  /\ DOMAIN prev # {}
  /\ prev.rates = [USD |-> 10000, EUR |-> 12500]
  /\ fetch.at - prev.timestamp = cache_hours - 1
  /\ fetch.hardcoded_fallback = EXCHANGE_RATES_HARDCODED
  /\ rates = prev.rates

\* ---------------------------------------------------------- DataCleaner
\* str.replace(old, new): every occurrence, left to right, none overlapping
RECURSIVE ReplaceAll(_, _, _)
ReplaceAll(s, old, new) ==
  IF Len(s) < Len(old) THEN s
  ELSE IF SubSeq(s, 1, Len(old)) = old
       THEN new \o ReplaceAll(SubSeq(s, Len(old) + 1, Len(s)), old, new)
       ELSE <<Head(s)>> \o ReplaceAll(Tail(s), old, new)

\* DataCleaner.strip_and_replace_spaces
strip_and_replace_spaces(cell) ==
  IF IsStr(cell) THEN CollapseSpaces(Strip(cell)) ELSE cell

RECURSIVE ApplyReplacements(_, _)
ApplyReplacements(title, table) ==
  IF table = <<>> THEN title
  ELSE ApplyReplacements(ReplaceAll(title, Head(table).k, Head(table).v),
                         Tail(table))

\* DataCleaner.normalize_titles on one cell
normalize_titles(title) ==
  IF IsStr(title) THEN Strip(ApplyReplacements(title, TITLE_NORMALIZATION))
  ELSE title

\* DataCleaner.normalize_authors on one cell
normalize_authors(name) == IF IsStr(name) THEN ReplaceAuthor(Strip(name)) ELSE name

DropLast(s) == SubSeq(s, 1, Len(s) - 1)

\* str.replace(date_pattern, '', regex=True): "DATE" is a dash, a month, a
\* day and a year; the pattern takes it at the end of the title with one '.'
\* and whitespace before it and '.', ',' and whitespace after it
StripDateSuffix(title) ==
  LET s1 == RStrip(title)
      s2 == IF s1 # <<>> /\ s1[Len(s1)] = "COMMA" THEN DropLast(s1) ELSE s1
      s3 == IF s2 # <<>> /\ s2[Len(s2)] = "DOT" THEN DropLast(s2) ELSE s2
  IN IF s3 # <<>> /\ s3[Len(s3)] = "DATE"
     THEN LET before == RStrip(DropLast(s3))
          IN IF before # <<>> /\ before[Len(before)] = "DOT"
             THEN DropLast(before) ELSE before
     ELSE title

\* -------------------------------------------- specification: author table
\* an author-name cell: the names the table has in two spellings that differ
\* by accent marks only, a name it does not have, spaces
AuthorAtoms ==
  {"Josephine Ndonke", "Josephine_acute Ndonke", "Tanyi Djobia Rene",
   "Tanyi Djobia Rene_acute", "Shck Camna_combining", "Shck Camna_caron",
   "Jane", "SP"}

AuthorCells == StrUpTo(AuthorAtoms, MaxNameLen) \cup {NaN}

AuthorsInit ==
  /\ pc = "cell"
  /\ text \in AuthorCells
  /\ res = <<>>
  /\ TableIdle
  /\ CatalogIdle
  /\ EnvIdle

\* DataCleaner.normalize_authors on the cell
NormalizeAuthors ==
  /\ pc = "cell"
  /\ res' = normalize_authors(text)
  /\ pc' = "normalized"
  /\ UNCHANGED <<text, tableVars, catalogVars, envVars>>

\* the last two lines of RoyaltiesProcessor.explode_authors on the cell
\* taken as a segment: str.strip(), replace(AUTHOR_NORMALIZATION)
ReplaceExploded ==
  /\ pc = "cell"
  /\ res' = (IF IsStr(text) THEN ReplaceAuthor(Strip(text)) ELSE text)
  /\ pc' = "replaced"
  /\ UNCHANGED <<text, tableVars, catalogVars, envVars>>

AuthorsNext == NormalizeAuthors \/ ReplaceExploded

SpecAuthors == AuthorsInit /\ [][AuthorsNext]_vars

\* the name without its accent marks
Unaccented(name) ==
  [i \in 1..Len(name) |->
     CASE name[i] = "Josephine_acute Ndonke" -> "Josephine Ndonke"
       [] name[i] = "Tanyi Djobia Rene_acute" -> "Tanyi Djobia Rene"
       [] name[i] \in {"Shck Camna_combining", "Shck Camna_caron"} ->
            "Shck Camna"
       [] OTHER -> name[i]]

\* the names the author table spells: its keys and its canonical names
TableNames ==
  DOMAIN AUTHOR_NORMALIZATION
    \cup {AUTHOR_NORMALIZATION[k] : k \in DOMAIN AUTHOR_NORMALIZATION}

\* C20: a name the author table spells, looked up through normalize_authors
\* or the exploder's replace, gives the canonical string of every key that
\* differs from it only by accent marks: both spellings of a pair yield the
\* same canonical name.
C20_AccentPairs ==
  (pc \in {"normalized", "replaced"} /\ IsStr(text)
     /\ Strip(text) \in TableNames) =>
    \A k \in DOMAIN AUTHOR_NORMALIZATION :
      Unaccented(k) = Unaccented(Strip(text)) =>
        res = AUTHOR_NORMALIZATION[k]

\* the unaccented spelling, with a stray space, gets the accented canonical
C20_Witness ==
  /\ pc = "normalized"
  /\ text = <<"SP", "Josephine Ndonke">>
  /\ res = <<"Josephine_acute Ndonke">>

\* ------------------------------------------------ specification: pipeline
\* raw titles of the sales export: the Yemba phrasebook in full and in its
\* short form, a tale with and without a date suffix or a final '.', with
\* stray whitespace, a Nufi title, 'Conversation de base', an empty cell
SalesTitles ==
  {YembaTitle, <<"GY">>, <<"FONGBE", "DATE">>, <<"FONGBE", "DOT">>,
   <<"FONGBE">>, <<"SP", "FONGBE", "SP", "TAB", "DOT">>,
   <<"FOURMI_NUFI", "RSQUO">>, <<"CdB">>, NaN}

\* the catalog as the file has it: titles not yet cleaned
RawCatalogRows ==
  {CatalogRow(YembaTitle, <<"Jane">>, <<"Yemba">>),
   CatalogRow(<<"FONGBE", "DATE">>, <<"SP", "Tchamna">>, <<"Ewondo">>),
   CatalogRow(<<"FONGBE", "DOT">>, NaN, NaN)}

\* identifiers as pandas reads them: a cell of digits is an int
Identifiers == {Id("int", "1"), Id("str", "1"), Id("str", "B0")}

SomeOf(S) == {{}} \cup {{x} : x \in S}

\* config.USE_LIVE_RATES
USE_LIVE_RATES == TRUE

\* the two source files: both readable; the catalog absent, or without its
\* 'authors' column; the workbook absent, without one of its four sheets, or
\* with an eBook sheet that has no 'ASIN' column
FileStates ==
  {[catalog |-> "ok", workbook |-> "ok"],
   [catalog |-> "missing", workbook |-> "ok"],
   [catalog |-> "no_authors_column", workbook |-> "ok"],
   [catalog |-> "ok", workbook |-> "missing"],
   [catalog |-> "ok", workbook |-> "no_sheet"],
   [catalog |-> "ok", workbook |-> "no_ASIN_column"]}

\* the cache a run can find: none yet, a fresh one, no directory to make
PipelineCaches ==
  {[dir |-> "present", file |-> CacheFile("absent", EmptyDict, 0)],
   [dir |-> "present",
    file |-> CacheFile("valid", [USD |-> 10000, EUR |-> 12000], 0)],
   [dir |-> "blocked", file |-> CacheFile("absent", EmptyDict, 0)]}

\* what the API answers during a run
PipelineResponses ==
  {Response("timeout", EmptyDict),
   Response("ok", [USD |-> 10000, EUR |-> 8000])}

\* how writing the cache ends during a run
PipelineWrites == {"written", "refused"}

Init ==
  /\ pc = "start"
  /\ text \in SalesTitles
  /\ res = <<>>
  /\ \E st \in FileStates, bs \in StrUpTo(RawCatalogRows, MaxBooks),
        id \in Identifiers :
        /\ st.catalog = "missing" => bs = <<>>
        /\ st.workbook \in {"missing", "no_sheet"} => text = <<"CdB">>
        /\ files = [catalog |-> st.catalog, workbook |-> st.workbook,
                 books |-> bs,
                 record |->
                   [Title |-> text, AuthorName |-> <<"Tchamna", "SP">>,
                    ISBN |-> id, Royalty |-> 1000, Currency |-> "EUR",
                    book_nick_name |-> NaN, Authors |-> NaN,
                    Language |-> NaN]]
  /\ books = <<>>
  /\ row = NoRow
  /\ sheets \in [ebook : SomeOf({Id("int", "1"), Id("str", "B0")}),
                 paper : SomeOf({Id("int", "1")}),
                 hardcover : SomeOf({Id("str", "1")})]
  /\ rates = <<>>
  /\ lists = NoLists
  /\ mapper = <<>>
  /\ out = <<>>
  /\ exploded = <<>>
  /\ cache \in PipelineCaches
  /\ fetch = <<>>
  /\ err = <<>>
  /\ log = {}
  /\ prev = <<>>
  /\ now = 0
  /\ sync = <<>>
  /\ hook = <<>>

\* the run ends with an exception: nothing is returned
Raise(e) ==
  /\ err' = e
  /\ pc' = "raised"

\* load_and_process_all_data, "Load data": pd.read_csv and the four
\* pd.read_excel calls, none inside a try
LoadData ==
  /\ pc = "start"
  /\ IF files.catalog = "missing"
     THEN /\ Raise(Raised("FileNotFoundError", <<"BOOKS_DATABASE_PATH">>))
          /\ UNCHANGED <<books, row>>
     ELSE IF files.workbook = "missing"
     THEN /\ Raise(Raised("FileNotFoundError", <<"ROYALTIES_HISTORY_PATH">>))
          /\ UNCHANGED <<books, row>>
     ELSE IF files.workbook = "no_sheet"
     THEN /\ Raise(Raised("ValueError", <<"Paperback Royalty">>))
          /\ UNCHANGED <<books, row>>
     ELSE /\ books' = files.books
          /\ row' = files.record
          /\ pc' = "load"
          /\ err' = err
  /\ UNCHANGED <<text, res, rates, lists, out, exploded, sheets, mapper,
                 files, cache, fetch, log, prev, now,
                 serviceVars>>

\* load_and_process_all_data, "Clean books database"; books_df['authors']
\* raises KeyError where the catalog has no such column
CleanBooks ==
  /\ pc = "load"
  /\ IF files.catalog = "no_authors_column"
     THEN /\ Raise(Raised("KeyError", <<"authors">>))
          /\ books' = books
     ELSE /\ books' = [i \in 1..Len(books) |->
                 [books[i] EXCEPT
                    !.Title = Strip(StripDateSuffix(normalize_titles(@))),
                    !.authors = normalize_authors(@)]]
          /\ pc' = "lists"
          /\ err' = err
  /\ UNCHANGED <<text, res, tableVars, mapper, files, cache, fetch, log, prev,
                 now, serviceVars>>

\* load_and_process_all_data, "Get unique ISBNs/ASINs"; ebook_df["ASIN"]
\* raises KeyError where the sheet has no such column
BuildLists ==
  /\ pc = "lists"
  /\ IF files.workbook = "no_ASIN_column"
     THEN /\ Raise(Raised("KeyError", <<"ASIN">>))
          /\ lists' = lists
     ELSE /\ lists' = [ebook |-> sheets.ebook,
                       paper |-> {StrOf(x) : x \in sheets.paper},
                       hardcover |-> {StrOf(x) : x \in sheets.hardcover}]
          /\ pc' = "clean"
          /\ err' = err
  /\ UNCHANGED <<text, res, row, rates, out, exploded, sheets, catalogVars,
                 files, cache, fetch, log, prev, now,
                 serviceVars>>

\* load_and_process_all_data, "Clean and normalize sell history"
CleanSales ==
  /\ pc = "clean"
  /\ row' = [row EXCEPT
               !.Title = normalize_titles(strip_and_replace_spaces(@)),
               !.AuthorName = normalize_authors(strip_and_replace_spaces(@))]
  /\ pc' = "create"
  /\ UNCHANGED <<text, res, rates, lists, out, exploded, sheets, catalogVars, envVars>>

\* load_and_process_all_data, the three apply(mapper.get_...) calls; res
\* keeps the return statement each lookup left by; an exception raised by a
\* lookup ends the run
Enrich ==
  /\ pc = "lookup"
  /\ res' = [book_nick_name |-> get_book_nickname(row.Title, mapper).at,
             Authors |-> get_authors(row.Title, mapper).at,
             Language |-> get_language(row.Title, mapper).at]
  /\ IF get_authors(row.Title, mapper).at = "raise"
     THEN /\ Raise(Raised("TypeError", <<>>))
          /\ row' = [row EXCEPT
               !.book_nick_name = get_book_nickname(row.Title, mapper).ret]
     ELSE /\ row' = [row EXCEPT
               !.book_nick_name = get_book_nickname(row.Title, mapper).ret,
               !.Authors = get_authors(row.Title, mapper).ret,
               !.Language = get_language(row.Title, mapper).ret]
          /\ pc' = "royalties"
          /\ err' = err
  /\ UNCHANGED <<text, rates, lists, out, exploded, sheets, catalogVars,
                 files, cache, fetch, log, prev, now,
                 serviceVars>>

\* RoyaltiesProcessor.process_royalties as the pipeline calls it, with no
\* exchange_rates: the rates come from get_exchange_rates(USE_LIVE_RATES,
\* EXCHANGE_RATES_HARDCODED)
ProcessRoyaltiesLive ==
  /\ pc = "royalties"
  /\ \E response \in PipelineResponses, write \in PipelineWrites :
        /\ fetch' = [use_live |-> USE_LIVE_RATES, response |-> response,
                     hardcoded_fallback |-> EXCHANGE_RATES_HARDCODED,
                     cached |-> _load_cache(cache.file, now), at |-> now]
        /\ IF ManagerRaises(cache)
           THEN /\ Raise(Raised("OSError", <<"cache_dir">>))
                /\ UNCHANGED <<rates, cache, log, out>>
           ELSE LET got == get_rates(cache.file, USE_LIVE_RATES, response,
                                     write, EXCHANGE_RATES_HARDCODED, now)
                IN /\ rates' = got.ret
                   /\ cache' = [dir |-> "present", file |-> got.file]
                   /\ log' = log \cup got.log
                   /\ out' = ProcessedColumns(row, got.ret, lists)
                   /\ pc' = "explode"
                   /\ err' = err
  /\ UNCHANGED <<text, res, row, lists, exploded, sheets, catalogVars, files,
                 prev, now, serviceVars>>

\* the tables load_and_process_all_data returns
Returns ==
  [books |-> books, royalties_history |-> <<row, out>>,
   royalties_exploded |-> exploded, ebook_list |-> lists.ebook,
   paper_list |-> lists.paper, hardcover_list |-> lists.hardcover]

\* the program is run once more on the same files: a new process, the disk
\* as the first run left it
RunAgain ==
  /\ pc = "done"
  /\ DOMAIN prev = {}
  /\ prev' = Returns
  /\ pc' = "start"
  /\ res' = <<>>
  /\ books' = <<>>
  /\ row' = NoRow
  /\ rates' = <<>>
  /\ lists' = NoLists
  /\ mapper' = <<>>
  /\ out' = <<>>
  /\ exploded' = <<>>
  /\ fetch' = <<>>
  /\ log' = {}
  /\ UNCHANGED <<text, sheets, files, cache, err, now, serviceVars>>

Next ==
  \/ LoadData
  \/ CleanBooks
  \/ BuildLists
  \/ CleanSales
  \/ CreateMappings
  \/ Enrich
  \/ ProcessRoyaltiesLive
  \/ ExplodeAuthors
  \/ RunAgain

Spec == Init /\ [][Next]_vars

\* C1: a sales record titled with the full Yemba phrasebook title, which the
\* catalog lists with language "Yemba", comes out of the pipeline with
\* book_nick_name "yemba_phrasebook" and Language "Yemba" taken from the
\* catalog, not from the keyword classifier.
C1_YembaResolved ==
  (/\ pc = "done"
   /\ \E i \in 1..Len(books) : books[i].language_name = <<"Yemba">>
   /\ text = YembaTitle) =>
    /\ row.book_nick_name = <<"yemba_phrasebook">>
    /\ row.Language = <<"Yemba">>
    /\ res.Language \in {"exact", "normalized"}

\* what an identifier reads, whatever its type
Text(id) == id.v

\* C5: BookType is the first of Paper, HardCover, Ebook whose list holds the
\* record's identifier, and Unknown only when none of the three lists does.
C5_FirstListWins ==
  pc \in {"explode", "done"} =>
    LET inPaper == \E x \in sheets.paper : Text(x) = Text(row.ISBN)
        inHard == \E x \in sheets.hardcover : Text(x) = Text(row.ISBN)
        inEbook == \E x \in sheets.ebook : Text(x) = Text(row.ISBN)
    IN out.BookType = (IF inPaper THEN "Paper"
                       ELSE IF inHard THEN "HardCover"
                       ELSE IF inEbook THEN "Ebook"
                       ELSE "Unknown")

\* the three lookups were applied to the record's title
Enriched == DOMAIN res = {"book_nick_name", "Authors", "Language"}

\* C11: for every title a sales record can hold, a missing one and one that
\* no table knows included, get_book_nickname, get_authors and get_language
\* each return a best-effort default (the title, the default author string,
\* "Other") and none of them raises.
C11_LookupsNeverRaise ==
  Enriched =>
    /\ res.book_nick_name # "raise"
    /\ res.Authors # "raise"
    /\ res.Language # "raise"
    /\ pc # "raised"
    /\ ~IsStr(row.Title) =>
         /\ row.book_nick_name = row.Title
         /\ row.Authors = DefaultAuthors
         /\ row.Language = <<"Other">>

\* the title ends with a " - <Month> <Day>, <Year>" suffix
EndsWithDate(t) == IsStr(t) /\ t # <<>> /\ t[Len(t)] = "DATE"

\* C14: after the cleaning steps no title of the reconciled sales table ends
\* with a date suffix, and a sales title that differs from a catalog title
\* only by that suffix resolves to that catalog entry.
C14_DateSuffixStripped ==
  pc = "done" =>
    /\ ~EndsWithDate(row.Title)
    /\ \A i \in 1..Len(books) :
         (IsStr(text) /\ Strip(StripDateSuffix(Strip(text))) = books[i].Title) =>
           /\ row.Authors = get_authors(books[i].Title, mapper).ret
           /\ row.Language = get_language(books[i].Title, mapper).ret

\* every message the exchange-rate functions print
RateMessages ==
  {"Using cached exchange rates", "Using LIVE exchange rates",
   "Failed to fetch live rates, using fallback",
   "Using hardcoded exchange rates", "No rates available, using defaults",
   "Successfully fetched rates", "exchangerate-api failed",
   "Exchange rate cache expired", "Failed to load cache",
   "Failed to save cache"}

\* the identifiers that more than one of the three sheets lists
DuplicateIds ==
  LET P == {Text(x) : x \in sheets.paper}
      H == {Text(x) : x \in sheets.hardcover}
      E == {Text(x) : x \in sheets.ebook}
  IN (P \cap H) \cup (P \cap E) \cup (H \cap E)

\* C16: when an identifier is in more than one of the paperback, hardcover
\* and ebook lists, the pipeline reports it as a warning, does not abort,
\* and classifies the record by the fixed priority order.
C16_DuplicateWarned ==
  (pc \in {"explode", "done"} /\ DuplicateIds # {}) =>
    /\ log \ RateMessages # {}
    /\ Text(row.ISBN) \in {Text(x) : x \in sheets.paper} =>
         out.BookType = "Paper"

\* a second run on the same files has returned
SecondRunDone == pc = "done" /\ DOMAIN prev # {}

\* C17: two runs of load_and_process_all_data on the same source files and
\* reference tables return the same tables, whatever the exchange-rate cache
\* on disk holds and however the live-rate fetch ends.
C17_Deterministic == SecondRunDone => Returns = prev

\* one of the two source files is missing or malformed
BadSource == files.catalog # "ok" \/ files.workbook # "ok"

\* the file or the sheet that cannot be loaded
FailedSource ==
  CASE files.catalog # "ok" -> <<"BOOKS_DATABASE_PATH">>
    [] files.workbook = "missing" -> <<"ROYALTIES_HISTORY_PATH">>
    [] files.workbook = "no_sheet" -> <<"Paperback Royalty">>
    [] files.workbook = "no_ASIN_column" -> <<"eBook Royalty">>
    [] OTHER -> <<>>

\* C18: if the catalog or the sales workbook (or one of its sheets) is
\* missing or malformed, load_and_process_all_data raises, returns no
\* tables, and the failure names the file or the sheet that could not be
\* loaded.
C18_LoadFailureIdentified ==
  BadSource =>
    /\ pc \notin {"royalties", "explode", "done"}
    /\ pc = "raised" => err.names = FailedSource

\* ------------------------------------------ specification: background sync
\* most worker threads one process starts
MaxThreads == 2

\* Thread.is_alive() of a worker: it neither returned nor ended by an
\* exception
is_alive(w) == w.pc \notin {"returned", "exit"}

SyncInit ==
  /\ pc = "sync"
  /\ text = <<>>
  /\ res = <<>>
  /\ TableIdle
  /\ CatalogIdle
  /\ files = <<>>
  /\ cache = <<>>
  /\ fetch = <<>>
  /\ err = <<>>
  /\ log = {}
  /\ prev = <<>>
  /\ now = 0
  /\ hook = <<>>
  /\ sync = [_sync_thread |-> 0, _stop_sync |-> FALSE, workers |-> <<>>,
             caller |-> "idle", last |-> "none", process |-> "running"]

\* a worker is made whatever the last one does
start_background_sync_Unchecked(s) ==
  [s EXCEPT !._stop_sync = FALSE,
            !.workers = Append(@, [pc |-> "check", result |-> "none"]),
            !._sync_thread = Len(s.workers) + 1,
            !.last = "start"]

\* start_background_sync: _sync_thread is 0 for None, else the number of the
\* worker made last
start_background_sync(s) ==
  IF s._sync_thread # 0 /\ is_alive(s.workers[s._sync_thread])
  THEN [s EXCEPT !.last = "start"]
  ELSE [s EXCEPT !._stop_sync = FALSE,
                 !.workers = Append(@, [pc |-> "check", result |-> "none"]),
                 !._sync_thread = Len(s.workers) + 1,
                 !.last = "start"]

SyncIdle == <<pc, text, res, tableVars, catalogVars, files, cache, fetch, err,
              prev, now, hook>>

\* a call of start_background_sync
StartBackgroundSync ==
  /\ pc = "sync"
  /\ sync.caller = "idle"
  /\ Len(start_background_sync(sync).workers) <= MaxThreads
  /\ sync' = start_background_sync(sync)
  /\ log' = log \cup (IF sync'.workers = sync.workers
                      THEN {"Background S3 sync already running"}
                      ELSE {"Background S3 sync started"})
  /\ UNCHANGED SyncIdle

\* a call of stop_background_sync, up to _sync_thread.join(timeout=5)
StopBackgroundSync ==
  /\ pc = "sync"
  /\ sync.caller = "idle"
  /\ sync' = [sync EXCEPT !._stop_sync = TRUE,
                          !.caller = IF sync._sync_thread # 0
                                     THEN "join" ELSE "idle",
                          !.last = IF sync._sync_thread # 0 THEN @ ELSE "stop"]
  /\ UNCHANGED <<log, SyncIdle>>

\* join(timeout=5) returns: the worker has ended, or five seconds have
\* passed while it is still busy with its S3 calls
JoinReturns ==
  /\ pc = "sync"
  /\ sync.caller = "join"
  /\ \/ ~is_alive(sync.workers[sync._sync_thread])
     \/ sync.workers[sync._sync_thread].pc = "sync"
  /\ sync' = [sync EXCEPT !.caller = "idle", !.last = "stop"]
  /\ log' = log \cup {"Background S3 sync stopped"}
  /\ UNCHANGED SyncIdle

\* background_sync_worker: while not _stop_sync
WorkerLoopTest ==
  /\ pc = "sync"
  /\ \E w \in 1..Len(sync.workers) :
        /\ sync.workers[w].pc = "check"
        /\ sync' = [sync EXCEPT !.workers[w].pc =
                      IF sync._stop_sync THEN "returned" ELSE "sync"]
  /\ UNCHANGED <<log, SyncIdle>>

\* background_sync_worker, the body of the try: no file is newer; every
\* newer file is downloaded and sys.exit(0) is called; a download fails.
\* sys.exit raises SystemExit in the calling thread: except Exception does
\* not catch it, and raised in a thread that is not the main thread it ends
\* that thread and not the process
WorkerSync ==
  /\ pc = "sync"
  /\ \E w \in 1..Len(sync.workers),
        result \in {"no_update", "downloaded", "failed"} :
        /\ sync.workers[w].pc = "sync"
        /\ sync' = [sync EXCEPT !.workers[w] =
                      [pc |-> IF result = "downloaded" THEN "exit" ELSE "sleep",
                       result |-> result]]
        /\ log' = log \cup
             (CASE result = "downloaded" ->
                     {"S3 sync completed - Restarting container to reload data"}
                [] result = "failed" -> {"Some files failed to sync"}
                [] OTHER -> {})
  /\ UNCHANGED SyncIdle

\* background_sync_worker, the sleep loop: it ends after interval seconds,
\* or at the first second at which _stop_sync is set
WorkerSleep ==
  /\ pc = "sync"
  /\ \E w \in 1..Len(sync.workers) :
        /\ sync.workers[w].pc = "sleep"
        /\ sync' = [sync EXCEPT !.workers[w].pc = "check"]
  /\ UNCHANGED <<log, SyncIdle>>

SyncNext ==
  \/ StartBackgroundSync
  \/ StopBackgroundSync
  \/ JoinReturns
  \/ WorkerLoopTest
  \/ WorkerSync
  \/ WorkerSleep

SpecSync == SyncInit /\ [][SyncNext]_vars

\* the worker threads that are alive
AliveWorkers == {w \in 1..Len(sync.workers) : is_alive(sync.workers[w])}

\* C24: when the worker has found an updated file and downloaded every
\* updated file, the application process exits; when a download has failed
\* the process keeps running and the worker goes on to its next check.
C24_ExitAfterSync ==
  \A w \in 1..Len(sync.workers) :
    /\ sync.workers[w].result = "downloaded" => sync.process = "exited"
    /\ sync.workers[w].result = "failed" =>
         (sync.process = "running" /\ sync.workers[w].pc # "exit")

\* C25: whatever start_background_sync and stop_background_sync calls are
\* made, at most one worker thread is alive at a time: a new worker is made
\* only when no worker made before is alive.
C25_OneWorker == Cardinality(AliveWorkers) <= 1

\* a start call while the worker was alive made none, a later one made the
\* second worker after the first had ended
C25_Witness ==
  /\ Len(sync.workers) = 2
  /\ AliveWorkers = {2}
  /\ "Background S3 sync already running" \in log

\* start_background_sync has returned and stop_background_sync has not been
\* called since
SyncRequested == sync.last = "start" /\ sync.caller = "idle"

\* C26: from the return of start_background_sync until the next call of
\* stop_background_sync a worker thread is alive, also when the start
\* follows a stop whose join timed out (no worker has reached sys.exit).
C26_WorkerAfterStart ==
  (SyncRequested /\ \A w \in 1..Len(sync.workers) : sync.workers[w].pc # "exit")
    => AliveWorkers # {}

\* ------------------------------------------ specification: S3 webhook
\* most records in the Message of one SNS notification
MaxRecords == 3

\* str.startswith and str.endswith on a text of atoms
startswith(s, prefix) == Len(s) >= 1 /\ s[1] = prefix
endswith(s, suffix) == Len(s) >= 1 /\ s[Len(s)] = suffix

\* the records of an S3 event: an event name and an object key
EventNames == {<<"ObjectCreated", ":Put">>, <<"ObjectRemoved", ":Delete">>}
ObjectKeys == {<<"royalties", ".xlsx">>, <<"books", ".csv">>,
               <<"notes", ".txt">>}
EventRecords == [eventName : EventNames, key : ObjectKeys]

\* the requests: a GET, or a POST with the SNS message type, the records of
\* its Message, whether each download_s3_files call succeeds and whether
\* the GET of the SubscribeURL answers 200
HookRequests ==
  [method : {"GET"}, type : {"none"}, records : {<<>>},
   success : {<<>>}, subscribed : {FALSE}]
  \cup
  [method : {"POST"}, type : {"SubscriptionConfirmation"}, records : {<<>>},
   success : {<<>>}, subscribed : BOOLEAN]
  \cup
  [method : {"POST"}, type : {"UnsubscribeConfirmation"}, records : {<<>>},
   success : {<<>>}, subscribed : {FALSE}]
  \cup
  UNION {[method : {"POST"}, type : {"Notification"},
          records : [1..n -> EventRecords], success : [1..n -> BOOLEAN],
          subscribed : {FALSE}] : n \in 0..MaxRecords}

\* a record that reports an upload of a data file
IsDataUpload(record) ==
  /\ startswith(record.eventName, "ObjectCreated")
  /\ endswith(record.key, ".xlsx") \/ endswith(record.key, ".csv")

HookResponse(status, code, downloads) ==
  [status |-> status, code |-> code, downloads |-> downloads]

\* the loop over message['Records'] from record i on: the first upload of a
\* data file is downloaded and the handler returns
RECURSIVE NotificationRecords(_, _)
NotificationRecords(request, i) ==
  IF i > Len(request.records) THEN HookResponse("processed", 200, <<>>)
  ELSE IF IsDataUpload(request.records[i])
       THEN IF request.success[i]
            THEN HookResponse("success", 200, <<request.records[i].key>>)
            ELSE HookResponse("error", 500, <<request.records[i].key>>)
       ELSE NotificationRecords(request, i + 1)

\* s3_webhook: the status and code of the response and the keys
\* download_s3_files was called with
s3_webhook(request) ==
  IF request.method = "GET" THEN HookResponse("ok", 200, <<>>)
  ELSE IF request.type = "SubscriptionConfirmation"
       THEN IF request.subscribed THEN HookResponse("confirmed", 200, <<>>)
            ELSE HookResponse("pending", 200, <<>>)
  ELSE IF request.type = "Notification"
       THEN NotificationRecords(request, 1)
  ELSE HookResponse("ignored", 200, <<>>)

WebhookInit ==
  /\ pc = "webhook"
  /\ text = <<>>
  /\ res = <<>>
  /\ TableIdle
  /\ CatalogIdle
  /\ files = <<>>
  /\ cache = <<>>
  /\ fetch = <<>>
  /\ err = <<>>
  /\ log = {}
  /\ prev = <<>>
  /\ now = 0
  /\ sync = <<>>
  /\ hook = <<>>

\* one request to /api/s3-webhook; the handler keeps nothing from one
\* request to the next
S3Webhook ==
  /\ pc = "webhook"
  /\ \E request \in HookRequests :
        hook' = [request |-> request, response |-> s3_webhook(request)]
  /\ pc' = "responded"
  /\ UNCHANGED <<text, res, tableVars, catalogVars, files, cache, fetch, err,
                 log, prev, now, sync>>

WebhookNext == S3Webhook

SpecWebhook == WebhookInit /\ [][WebhookNext]_vars

\* the keys of the records that report an upload of a data file
RECURSIVE DataUploads(_)
DataUploads(records) ==
  IF records = <<>> THEN <<>>
  ELSE (IF IsDataUpload(Head(records)) THEN <<Head(records).key>> ELSE <<>>)
       \o DataUploads(Tail(records))

\* C27: answering a notification, s3_webhook calls download_s3_files for
\* every ObjectCreated record whose key ends in .xlsx or .csv, in the order
\* of the records, and not only for the first of them.
C27_EveryUploadDownloaded ==
  (pc = "responded" /\ hook.request.type = "Notification")
    => hook.response.downloads = DataUploads(hook.request.records)

\* ------------------------------------------ specification: title cleaning
\* the runs of text a sales title is made of: the short Yemba title and the
\* suffix of the full one, both forms of "Conversation(s) de base", a space
\* and a word of no rule
CleaningAtoms == {"GY", "FY", "CdB", "CsdB", "SP", "FONGBE"}

CleaningInit ==
  /\ pc = "title0"
  /\ text \in StrUpTo(CleaningAtoms, MaxTitleLen) \cup {NaN}
  /\ res = <<>>
  /\ TableIdle
  /\ CatalogIdle
  /\ EnvIdle

\* normalize_titles on the Title column
NormalizeTitles ==
  /\ pc = "title0"
  /\ res' = <<normalize_titles(text)>>
  /\ pc' = "title1"
  /\ UNCHANGED <<text, tableVars, catalogVars, envVars>>

\* normalize_titles on the column it has cleaned
NormalizeTitlesAgain ==
  /\ pc = "title1"
  /\ res' = Append(res, normalize_titles(res[1]))
  /\ pc' = "title2"
  /\ UNCHANGED <<text, tableVars, catalogVars, envVars>>

CleaningNext == NormalizeTitles \/ NormalizeTitlesAgain

SpecCleaning == CleaningInit /\ [][CleaningNext]_vars

\* C28: normalize_titles applied to a title it has already cleaned leaves
\* it unchanged; a title that holds a replacement text is not extended.
C28_CleaningIdempotent == pc = "title2" => res[2] = res[1]

====
